---- MODULE Spec2Model ----
(***************************************************************************)
(* Overlap-block resolution of sga (src/Algorithm/OverlapBlock.cpp):       *)
(* removeSubMaximalBlocks, resolveOverlap, partitionBlockList,             *)
(* OverlapBlock::toOverlap and blockListToMultiOverlap (also in            *)
(* src/Algorithm/ErrorCorrectProcess.cpp), as state machines over small    *)
(* block lists; Pileup::calculateSimpleAlphaProb (src/Util/Pileup.cpp);    *)
(* the option parsing and output name of sga rmdup (src/SGA/rmdup.cpp).    *)
(* Each operation has its own variables and its own specification; the     *)
(* variables of the other operations stay idle in it.                      *)
(*                                                                         *)
(* An OverlapBlock is the record                                           *)
(*   [ranges |-> [interval |-> <<i0, i1>>], overlapLen, numDiff, flags]    *)
(* where interval[0] of the source is interval[1] here (TLA+ tuples are    *)
(* 1-based) and interval[1] of the source is interval[2]; the accessors    *)
(* I0 and I1 hide the shift.  backHistory/forwardHistory and isEliminated  *)
(* are carried along unread by the modelled functions and are left out.    *)
(***************************************************************************)
EXTENDS Integers, Sequences, FiniteSets, TLC

\* ---------------------------------------------------------------- bounds
\* read indices of the forward interval range over 0..MaxIdx
MaxIdx == 2
\* overlap lengths of the blocks handed to removeSubMaximalBlocks: 1..MaxOverlapLen
MaxOverlapLen == 2
\* longest block list handed to removeSubMaximalBlocks
MaxBlocks == 3
\* the history counter nCalls stops counting here
MaxCalls == 3
\* read lengths handed to toOverlap: 1..MaxSeqLen, and the 50 of the worked example
MaxSeqLen == 3

VARIABLES
    pList,      \* removeSubMaximalBlocks: the list *pList
    iter,       \* removeSubMaximalBlocks: position of iter in pList (1-based; Len+1 = end())
    pc,         \* removeSubMaximalBlocks: "start" | "loop" | "done" | "abort"
    fatal,      \* which assertion stopped the run: "none" | "same_length" | "split_assert"
    inMax,      \* history: for each read index, the longest overlapLen among the blocks
                \* of the list handed in that cover it (0: covered by none)
    inPre,      \* history: in the list handed in, blocks of equal overlapLen have
                \* identical or disjoint forward intervals
    inLen,      \* history: the length of the list handed in
    nCalls,     \* history: resolveOverlap calls made so far, counted up to MaxCalls
    blockA,     \* resolveOverlap called on its own: the argument A
    blockB,     \* resolveOverlap called on its own: the argument B
    outList,    \* resolveOverlap called on its own: the list returned (<<>> before)
    rpc,        \* resolveOverlap called on its own: "idle" | "call" | "returned" | "aborted"
    readLen,        \* partitionBlockList: the argument readLen
    pCompleteList,  \* partitionBlockList: *pCompleteList, from iter to its end
    pOverlapList,   \* partitionBlockList: *pOverlapList
    pContainList,   \* partitionBlockList: *pContainList
    ppc,            \* partitionBlockList: "idle" | "loop" | "done"
    inLists,        \* history: the three lists as they were handed to partitionBlockList
    block,      \* toOverlap: the block (*this)
    queryLen,   \* toOverlap: the argument queryLen
    targetLen,  \* toOverlap: the argument targetLen
    overlap,    \* toOverlap: the Overlap returned (<<>> before)
    opc,        \* toOverlap: "idle" | "call" | "returned"
    blockList,  \* blockListToMultiOverlap: the argument blockList
    readSeqLen, \* blockListToMultiOverlap: read_seq.length() of the anchor read
    readIdx,    \* blockListToMultiOverlap: the id given to the anchor read (read_idx)
    moIter,     \* blockListToMultiOverlap: position of iter in blockList (1-based)
    multiOut,   \* blockListToMultiOverlap: the entries added to out, in order
    mopc,       \* blockListToMultiOverlap: "idle" | "loop" | "done"
    inBlockList,\* history: blockList as it was handed in
    m_data,     \* Pileup: the observations, each [base, lp]
    ap,         \* calculateSimpleAlphaProb: for each base done, the terms summed into it
    lpReads,    \* history: the indices of m_data whose lp the loop has read
    baseIdx,    \* calculateSimpleAlphaProb: the outer loop index over ALPHABET (1-based)
    pipc,       \* calculateSimpleAlphaProb: "idle" | "loop" | "done" | "abort"
    argv,       \* rmdup parseDupOptions: the arguments not yet consumed
    optPrefix,  \* rmdup: opt::prefix
    optOutFile, \* rmdup: opt::outFile
    readsFile,  \* rmdup: opt::readsFile
    writerFile, \* rmdup parseDupHits: the name handed to createWriter (<<>> before)
    dpc,        \* rmdup: "idle" | "options" | "hits" | "written" | "exit"
    cmdOut,     \* history: the FILE of the last -o/--out on the command line (<<>>: none)
    ordList,    \* order check: a multiset of blocks, arranged in a fixed order
    ordResult,  \* order check: what removeSubMaximalBlocks made of a permutation
                \* of ordList
    canResult,  \* order check: what removeSubMaximalBlocks made of ordList itself
    ordpc       \* order check: "idle" | "call" | "again" | "done"

removeVars == <<pList, iter, pc, fatal, inMax, inPre, inLen, nCalls>>
resolveVars == <<blockA, blockB, outList, rpc>>
partVars == <<readLen, pCompleteList, pOverlapList, pContainList, ppc, inLists>>
ovlVars == <<block, queryLen, targetLen, overlap, opc>>
multiVars == <<blockList, readSeqLen, readIdx, moIter, multiOut, mopc, inBlockList>>
pileVars == <<m_data, ap, lpReads, baseIdx, pipc>>
rmdupVars == <<argv, optPrefix, optOutFile, readsFile, writerFile, dpc, cmdOut>>
orderVars == <<ordList, ordResult, canResult, ordpc>>
blockVars == <<removeVars, resolveVars, partVars, ovlVars>>
vars == <<removeVars, resolveVars, partVars, ovlVars, multiVars, pileVars, rmdupVars, orderVars>>

\* the variables of an operation that is not running
IdleRemove ==
    /\ pList = <<>>
    /\ iter = 1
    /\ pc = "idle"
    /\ fatal = "none"
    /\ inMax = <<>>
    /\ inPre = TRUE
    /\ inLen = 0
    /\ nCalls = 0

IdleResolve == blockA = <<>> /\ blockB = <<>> /\ outList = <<>> /\ rpc = "idle"

IdlePartition ==
    /\ readLen = 0
    /\ pCompleteList = <<>>
    /\ pOverlapList = <<>>
    /\ pContainList = <<>>
    /\ ppc = "idle"
    /\ inLists = <<>>

IdleToOverlap ==
    /\ block = <<>>
    /\ queryLen = 0
    /\ targetLen = 0
    /\ overlap = <<>>
    /\ opc = "idle"

IdleMulti ==
    /\ blockList = <<>>
    /\ readSeqLen = 0
    /\ readIdx = <<>>
    /\ moIter = 1
    /\ multiOut = <<>>
    /\ mopc = "idle"
    /\ inBlockList = <<>>

IdlePileup ==
    /\ m_data = <<>>
    /\ ap = <<>>
    /\ lpReads = {}
    /\ baseIdx = 1
    /\ pipc = "idle"

IdleRmdup ==
    /\ argv = <<>>
    /\ optPrefix = <<>>
    /\ optOutFile = <<>>
    /\ readsFile = <<>>
    /\ writerFile = <<>>
    /\ dpc = "idle"
    /\ cmdOut = <<>>

IdleOrder ==
    /\ ordList = <<>>
    /\ ordResult = <<>>
    /\ canResult = <<>>
    /\ ordpc = "idle"

\* ------------------------------------------------------- BWTInterval etc.
Interval(l, u) == [lower |-> l, upper |-> u]

\* BWTInterval::isValid
isValid(iv) == iv.lower <= iv.upper

\* BWTInterval::size
size(iv) == iv.upper - iv.lower + 1

\* Interval::isIntersecting(s1, e1, s2, e2)
isIntersecting(s1, e1, s2, e2) == ~(s1 > e2 \/ s2 > e1)

AlignFlags(qr, tr, qc) == [queryRev |-> qr, targetRev |-> tr, queryComp |-> qc]

NoFlags == AlignFlags(FALSE, FALSE, FALSE)

\* the constructor OverlapBlock(r, ol, nd, af, backHist)
OverlapBlock(i0, i1, ol, nd, af) ==
    [ranges |-> [interval |-> <<i0, i1>>], overlapLen |-> ol, numDiff |-> nd, flags |-> af]

\* ranges.interval[0] and ranges.interval[1] of the source
I0(b) == b.ranges.interval[1]
I1(b) == b.ranges.interval[2]

\* OverlapBlock::sortIntervalLeft: strict order on the forward left coordinate,
\* ties broken by the forward right coordinate
sortIntervalLeft(ob1, ob2) ==
    \/ I0(ob1).lower < I0(ob2).lower
    \/ I0(ob1).lower = I0(ob2).lower /\ I0(ob1).upper < I0(ob2).upper

\* ----------------------------------------------------- std::list helpers
\* std::list::sort(comp) is stable; the stable sorted permutation is unique, here
\* built by inserting the elements from the back, each before the first element
\* that does not precede it
RECURSIVE InsertFront(_, _)
InsertFront(x, s) ==
    IF s = <<>> THEN <<x>>
    ELSE IF sortIntervalLeft(Head(s), x) THEN <<Head(s)>> \o InsertFront(x, Tail(s))
    ELSE <<x>> \o s

RECURSIVE ListSort(_)
ListSort(s) == IF s = <<>> THEN <<>> ELSE InsertFront(Head(s), ListSort(Tail(s)))

\* std::list::merge(other, comp): an element of other goes first only when it
\* strictly precedes the current element of *this
RECURSIVE ListMerge(_, _)
ListMerge(this, other) ==
    IF this = <<>> THEN other
    ELSE IF other = <<>> THEN this
    ELSE IF sortIntervalLeft(Head(other), Head(this))
         THEN <<Head(other)>> \o ListMerge(this, Tail(other))
         ELSE <<Head(this)>> \o ListMerge(Tail(this), other)

\* std::list::erase of the elements at positions i and i+1
EraseTwo(s, i) == SubSeq(s, 1, i - 1) \o SubSeq(s, i + 2, Len(s))

\* ------------------------------------------------------- resolveOverlap
\* the assertions after each split (lines 276-278 and 294-296)
SplitAsserts(split) ==
    /\ size(I0(split)) = size(I1(split))
    /\ isValid(I0(split))
    /\ isValid(I1(split))

\* the left split ending on the first read index of the higher block
LeftSplit_KeepsEdge(split, pLower, pHigher) ==
    LET s1 == [split EXCEPT !.ranges.interval[1].lower = I0(pLower).lower]
        s2 == [s1 EXCEPT !.ranges.interval[1].upper = I0(pHigher).lower]
        diff == I0(s2).upper - I0(s2).lower
        s3 == [s2 EXCEPT !.ranges.interval[2].lower = I1(pLower).lower]
        s4 == [s3 EXCEPT !.ranges.interval[2].upper = I1(s3).lower + diff]
    IN s4

\* the left split with the reverse interval left as it was
LeftSplit_NoMirror(split, pLower, pHigher) ==
    LET s1 == [split EXCEPT !.ranges.interval[1].lower = I0(pLower).lower]
        s2 == [s1 EXCEPT !.ranges.interval[1].upper = I0(pHigher).lower - 1]
    IN s2

\* Left-hand split, lines 267-274
LeftSplit(split, pLower, pHigher) ==
    LET s1 == [split EXCEPT !.ranges.interval[1].lower = I0(pLower).lower]
        s2 == [s1 EXCEPT !.ranges.interval[1].upper = I0(pHigher).lower - 1]
        diff == I0(s2).upper - I0(s2).lower
        s3 == [s2 EXCEPT !.ranges.interval[2].lower = I1(pLower).lower]
        s4 == [s3 EXCEPT !.ranges.interval[2].upper = I1(s3).lower + diff]
    IN s4

\* the right split starting one read index too far right
RightSplit_DropsRead(split, pLower, pHigher) ==
    LET s1 == [split EXCEPT !.ranges.interval[1].lower = I0(pHigher).upper + 2]
        s2 == [s1 EXCEPT !.ranges.interval[1].upper = I0(pLower).upper]
        diff == I0(s2).upper - I0(s2).lower
        s3 == [s2 EXCEPT !.ranges.interval[2].upper = I1(pLower).upper]
        s4 == [s3 EXCEPT !.ranges.interval[2].lower = I1(s3).upper - diff]
    IN s4

\* the right split measuring the reverse interval from the upper bound that split
\* carries (the left split's) instead of pLower's
RightSplit_StaleReverse(split, pLower, pHigher) ==
    LET s1 == [split EXCEPT !.ranges.interval[1].lower = I0(pHigher).upper + 1]
        s2 == [s1 EXCEPT !.ranges.interval[1].upper = I0(pLower).upper]
        diff == I0(s2).upper - I0(s2).lower
        s4 == [s2 EXCEPT !.ranges.interval[2].lower = I1(s2).upper - diff]
    IN s4

\* the right split starting on the last read index of the higher block
RightSplit_KeepsEdge(split, pLower, pHigher) ==
    LET s1 == [split EXCEPT !.ranges.interval[1].lower = I0(pHigher).upper]
        s2 == [s1 EXCEPT !.ranges.interval[1].upper = I0(pLower).upper]
        diff == I0(s2).upper - I0(s2).lower
        s3 == [s2 EXCEPT !.ranges.interval[2].upper = I1(pLower).upper]
        s4 == [s3 EXCEPT !.ranges.interval[2].lower = I1(s3).upper - diff]
    IN s4

\* Right-hand split, lines 285-292
RightSplit(split, pLower, pHigher) ==
    LET s1 == [split EXCEPT !.ranges.interval[1].lower = I0(pHigher).upper + 1]
        s2 == [s1 EXCEPT !.ranges.interval[1].upper = I0(pLower).upper]
        diff == I0(s2).upper - I0(s2).lower
        s3 == [s2 EXCEPT !.ranges.interval[2].upper = I1(pLower).upper]
        s4 == [s3 EXCEPT !.ranges.interval[2].lower = I1(s3).upper - diff]
    IN s4

\* the comparison of line 217 turned round
AIsHigher_Swapped(A, B) == A.overlapLen < B.overlapLen

\* the first argument taken as the longer block whenever the lengths differ
AIsHigher_FirstArg(A, B) == A.overlapLen # B.overlapLen

\* the test of line 217: A has the higher overlap
AIsHigher(A, B) == A.overlapLen > B.overlapLen

\* pHigher and pLower, lines 215-226
HigherOf(A, B) == IF AIsHigher(A, B) THEN A ELSE B
LowerOf(A, B) == IF AIsHigher(A, B) THEN B ELSE A

\* the equal-length test comparing the lower bounds only
SameLengthMismatch_LowerOnly(A, B) ==
    /\ A.overlapLen = B.overlapLen
    /\ ~(I0(A).lower = I0(B).lower)

\* the equal-length test with A's upper end compared to B's lower end
SameLengthMismatch_CrossedEnds(A, B) ==
    /\ A.overlapLen = B.overlapLen
    /\ ~(I0(A).lower = I0(B).lower /\ I0(A).upper = I0(B).lower)

\* the equal-length test of lines 196-210: TRUE when the call stops at assert(false)
SameLengthMismatch(A, B) ==
    /\ A.overlapLen = B.overlapLen
    /\ ~(I0(A).lower = I0(B).lower /\ I0(A).upper = I0(B).upper)

\* resolveOverlap(A, B): [fatal, outList]; a failed assertion ends the call
\* (fatal # "none") and no list is returned
resolveOverlap(A, B) ==
    IF A.overlapLen = B.overlapLen
    THEN IF SameLengthMismatch(A, B)
         THEN [fatal |-> "same_length", outList |-> <<>>]
         ELSE [fatal |-> "none", outList |-> <<A>>]
    ELSE LET pHigher == HigherOf(A, B)
             pLower == LowerOf(A, B)
             split0 == pLower
             doLeft == I0(pLower).lower < I0(pHigher).lower
             splitL == IF doLeft THEN LeftSplit(split0, pLower, pHigher) ELSE split0
             doRight == I0(pLower).upper > I0(pHigher).upper
             splitR == IF doRight THEN RightSplit(splitL, pLower, pHigher) ELSE splitL
             out == <<pHigher>> \o (IF doLeft THEN <<splitL>> ELSE <<>>)
                                \o (IF doRight THEN <<splitR>> ELSE <<>>)
         IN IF (doLeft /\ ~SplitAsserts(splitL)) \/ (doRight /\ ~SplitAsserts(splitR))
            THEN [fatal |-> "split_assert", outList |-> <<>>]
            ELSE [fatal |-> "none", outList |-> ListSort(out)]

\* ------------------------------------------- removeSubMaximalBlocks: inputs
\* forward intervals inside 0..MaxIdx
ForwardIntervals == {Interval(l, u) : l \in 0..MaxIdx, u \in 0..MaxIdx}

\* the valid ones (lower <= upper), as the index search produces them
ValidForward == {iv \in ForwardIntervals : isValid(iv)}

\* A block of an input list: the reverse interval has the size of the forward one
\* and lies in another coordinate system (here shifted by MaxIdx + 1).
InputBlock(iv, ol) ==
    OverlapBlock(iv, Interval(iv.lower + MaxIdx + 1, iv.upper + MaxIdx + 1), ol, 0, NoFlags)

\* the list built from n forward intervals and n overlap lengths
InputList(n, ivs, ols) == [k \in 1..n |-> InputBlock(ivs[k], ols[k])]

\* read index i lies in the forward interval of block b
Covers(b, i) == I0(b).lower <= i /\ i <= I0(b).upper

SetMax(S) == CHOOSE m \in S : \A x \in S : x <= m

\* the longest overlapLen among the blocks of list s that cover read index i
MaxLenAt(s, i) == SetMax({0} \cup {s[k].overlapLen : k \in {j \in 1..Len(s) : Covers(s[j], i)}})

\* blocks of equal overlapLen have identical or disjoint forward intervals
EqualLenPrecondition(s) ==
    \A j, k \in 1..Len(s) :
        s[j].overlapLen = s[k].overlapLen =>
            \/ I0(s[j]) = I0(s[k])
            \/ ~isIntersecting(I0(s[j]).lower, I0(s[j]).upper, I0(s[k]).lower, I0(s[k]).upper)

\* -------------------------------------------- removeSubMaximalBlocks: steps
Init ==
    /\ \E n \in 0..MaxBlocks :
         \E ivs \in [1..n -> ValidForward], ols \in [1..n -> 1..MaxOverlapLen] :
            pList = InputList(n, ivs, ols)
    /\ inMax = [i \in 0..MaxIdx |-> MaxLenAt(pList, i)]
    /\ inPre = EqualLenPrecondition(pList)
    /\ inLen = Len(pList)
    /\ nCalls = 0
    /\ IdleResolve
    /\ IdlePartition
    /\ IdleToOverlap
    /\ IdleMulti /\ IdlePileup /\ IdleRmdup /\ IdleOrder
    /\ iter = 1
    /\ pc = "start"
    /\ fatal = "none"

\* lines 151-154: sort, iter = begin().  last = --end() is never read afterwards;
\* on an empty list the decrement has no defined value, and no outcome of it can
\* reach the list or iter, so the step is the same for every list.
SortList ==
    /\ pc = "start"
    /\ pList' = ListSort(pList)
    /\ iter' = 1
    /\ pc' = "loop"
    /\ UNCHANGED <<fatal, inMax, inPre, inLen, nCalls, resolveVars, partVars, ovlVars,
                 multiVars, pileVars, rmdupVars, orderVars>>

CountCall == IF nCalls < MaxCalls THEN nCalls + 1 ELSE nCalls

\* the end test with the last adjacent pair left out
AtEnd_SkipsLastPair == iter > Len(pList) \/ iter + 2 > Len(pList)

AtEnd == iter > Len(pList) \/ iter + 1 > Len(pList)

IterIntersectsNext ==
    isIntersecting(I0(pList[iter]).lower, I0(pList[iter]).upper,
                   I0(pList[iter + 1]).lower, I0(pList[iter + 1]).upper)

\* lines 156-162: iter == end() or next == end()
LoopExit ==
    /\ pc = "loop"
    /\ AtEnd
    /\ pc' = "done"
    /\ UNCHANGED <<pList, iter, fatal, inMax, inPre, inLen, nCalls, resolveVars, partVars, ovlVars,
                 multiVars, pileVars, rmdupVars, orderVars>>

\* lines 179-182
Advance ==
    /\ pc = "loop"
    /\ ~AtEnd
    /\ ~IterIntersectsNext
    /\ iter' = iter + 1
    /\ UNCHANGED <<pList, pc, fatal, inMax, inPre, inLen, nCalls, resolveVars, partVars, ovlVars,
                 multiVars, pileVars, rmdupVars, orderVars>>

\* lines 165-175, resolveOverlap returning
Resolve ==
    /\ pc = "loop"
    /\ ~AtEnd
    /\ IterIntersectsNext
    /\ LET r == resolveOverlap(pList[iter], pList[iter + 1])
       IN /\ r.fatal = "none"
          /\ pList' = ListMerge(EraseTwo(pList, iter), r.outList)
          /\ iter' = 1
    /\ nCalls' = CountCall
    /\ UNCHANGED <<pc, fatal, inMax, inPre, inLen, resolveVars, partVars, ovlVars,
                 multiVars, pileVars, rmdupVars, orderVars>>

\* line 168 with resolveOverlap stopping at a failed assertion
ResolveAbort ==
    /\ pc = "loop"
    /\ ~AtEnd
    /\ IterIntersectsNext
    /\ LET r == resolveOverlap(pList[iter], pList[iter + 1])
       IN /\ r.fatal # "none"
          /\ fatal' = r.fatal
    /\ pc' = "abort"
    /\ nCalls' = CountCall
    /\ UNCHANGED <<pList, iter, inMax, inPre, inLen, resolveVars, partVars, ovlVars,
                 multiVars, pileVars, rmdupVars, orderVars>>

Next == SortList \/ LoopExit \/ Advance \/ Resolve \/ ResolveAbort

Spec == Init /\ [][Next]_vars

\* removeSubMaximalBlocks runs to completion once called
FairSpec == Init /\ [][Next]_vars /\ WF_vars(Next)

\* ------------------------------------- removeSubMaximalBlocks: properties
Disjoint(a, b) == ~isIntersecting(I0(a).lower, I0(a).upper, I0(b).lower, I0(b).upper)

PairwiseDisjoint(s) == \A j, k \in 1..Len(s) : j < k => Disjoint(s[j], s[k])

AscendingLower(s) == \A j, k \in 1..Len(s) : j < k => I0(s[j]).lower <= I0(s[k]).lower

NoAdjacentIntersect(s) == \A j \in 1..Len(s) - 1 : Disjoint(s[j], s[j + 1])

\* the positions of the blocks of s that cover read index i
Covering(s, i) == {k \in 1..Len(s) : Covers(s[k], i)}

\* every block has a reverse interval of the size of the forward one, both valid
SizeInvariant(s) == \A k \in 1..Len(s) : SplitAsserts(s[k])

\* C1: when removeSubMaximalBlocks has returned, the forward intervals of every
\* two distinct blocks of the list are disjoint and the list is in ascending
\* order of the forward lower bound.
C1_PairwiseDisjointSorted ==
    pc = "done" => PairwiseDisjoint(pList) /\ AscendingLower(pList)

\* two intersecting blocks went in, the 3-way split came out
C1_Witness == pc = "done" /\ inLen = 2 /\ Len(pList) = 3 /\ nCalls = 1

\* C2: when removeSubMaximalBlocks has returned, a read index is covered by the
\* output exactly when the input covered it, and then by exactly one block.
C2_CoverPreserved ==
    pc = "done" =>
        \A i \in 0..MaxIdx :
            /\ (Covering(pList, i) # {}) = (inMax[i] > 0)
            /\ Cardinality(Covering(pList, i)) <= 1

\* blocks were absorbed: fewer blocks than went in, after at least two resolutions
C2_Witness ==
    /\ pc = "done"
    /\ nCalls >= 2
    /\ Len(pList) < inLen
    /\ \E i \in 0..MaxIdx : inMax[i] > 0 /\ Cardinality(Covering(pList, i)) = 1

\* C3: when removeSubMaximalBlocks has returned, the block that covers a read
\* index has the longest overlapLen of the input blocks that covered it.
C3_Maximal ==
    pc = "done" =>
        \A i \in 0..MaxIdx : \A k \in Covering(pList, i) : pList[k].overlapLen = inMax[i]

\* a resolution between blocks of different length happened and both lengths survive
C3_Witness ==
    /\ pc = "done"
    /\ nCalls >= 1
    /\ \E j, k \in 1..Len(pList) : pList[j].overlapLen < pList[k].overlapLen

\* the number of read indices the blocks of s claim, counted with repetition
RECURSIVE SumSizes(_)
SumSizes(s) == IF s = <<>> THEN 0 ELSE size(I0(Head(s))) + SumSizes(Tail(s))

\* a resolution takes at least one claimed read index out of the list: after the
\* sort, a step that changes the list makes SumSizes smaller, also when it
\* replaces two blocks by three
ResolutionShrinks ==
    [][(pc = "loop" /\ pList' # pList) => SumSizes(pList') < SumSizes(pList)]_vars

\* C4: on a list whose blocks of equal overlapLen have identical or disjoint
\* forward intervals, removeSubMaximalBlocks returns, every resolution on the
\* way having shrunk the list's claim of read indices, and when it has
\* returned no two adjacent blocks intersect.
C4_Terminates ==
    /\ inPre => <>(pc = "done")
    /\ ResolutionShrinks
    /\ [](pc = "done" => NoAdjacentIntersect(pList))

\* a run under the precondition in which one resolution made three blocks of two
\* and the scan restarted from the head
C4_Witness ==
    /\ inPre
    /\ pc = "loop"
    /\ iter = 1
    /\ nCalls >= 2
    /\ Len(pList) >= 3

\* C5: the blocks of the list keep reverse and forward intervals of equal size,
\* both valid, all through removeSubMaximalBlocks, and no assertion after a
\* split fails.
C5_SizeInvariant == SizeInvariant(pList) /\ fatal # "split_assert"

\* right after a resolution that left a fragment in the list
C5_Witness ==
    /\ pc = "loop"
    /\ nCalls >= 1
    /\ Len(pList) > inLen
    /\ \E k \in 1..Len(pList) : size(I0(pList[k])) = 1 /\ I1(pList[k]).lower = I1(pList[k]).upper

\* C15: when in the list handed to removeSubMaximalBlocks blocks of equal
\* overlapLen have identical or disjoint forward intervals, then all through the
\* run the pair about to be handed to resolveOverlap is never two blocks of
\* equal overlapLen with different forward intervals, and the run is never
\* stopped by the equal-length assertion.
C15_NoEqualLengthClash ==
    inPre =>
        /\ fatal # "same_length"
        /\ (pc = "loop" /\ ~AtEnd /\ IterIntersectsNext) =>
              ~SameLengthMismatch(pList[iter], pList[iter + 1])

\* a list that met the precondition holds, after a resolution, a fragment next
\* to its not yet cut twin: equal overlapLen, intersecting, different intervals;
\* the scan is at the head, where the twin meets the longer block first
C15_Witness ==
    /\ inPre
    /\ pc = "loop"
    /\ nCalls >= 1
    /\ iter = 1
    /\ \E k \in 2..(Len(pList) - 1) :
          /\ pList[k].overlapLen = pList[k + 1].overlapLen
          /\ I0(pList[k]) # I0(pList[k + 1])
          /\ isIntersecting(I0(pList[k]).lower, I0(pList[k]).upper,
                            I0(pList[k + 1]).lower, I0(pList[k + 1]).upper)

\* ------------------------------------------- resolveOverlap on its own
\* The arguments: any forward interval; the reverse interval in its own coordinate
\* system, of the forward size or one wider (a block that breaks the size
\* invariant); any overlap length, numDiff 0 or 1, two settings of the flags.
ResolveBlocks ==
    {OverlapBlock(iv, Interval(iv.lower + MaxIdx + 1, iv.upper + MaxIdx + 1 + skew), ol, nd, af) :
        iv \in ValidForward, skew \in 0..1, ol \in 1..MaxOverlapLen, nd \in 0..1,
        af \in {NoFlags, AlignFlags(TRUE, FALSE, TRUE)}}

InitResolve ==
    /\ blockA \in ResolveBlocks
    /\ blockB \in ResolveBlocks
    /\ outList = <<>>
    /\ rpc = "call"
    /\ IdleRemove
    /\ IdlePartition
    /\ IdleToOverlap
    /\ IdleMulti /\ IdlePileup /\ IdleRmdup /\ IdleOrder

\* resolveOverlap(A, B) returning its list, lines 190-308
ResolveReturns ==
    /\ rpc = "call"
    /\ LET r == resolveOverlap(blockA, blockB)
       IN /\ r.fatal = "none"
          /\ outList' = r.outList
    /\ rpc' = "returned"
    /\ UNCHANGED <<blockA, blockB, removeVars, partVars, ovlVars,
                 multiVars, pileVars, rmdupVars, orderVars>>

\* resolveOverlap(A, B) stopping at a failed assertion (lines 204-209, 276-278, 294-296)
ResolveStops ==
    /\ rpc = "call"
    /\ resolveOverlap(blockA, blockB).fatal # "none"
    /\ rpc' = "aborted"
    /\ UNCHANGED <<blockA, blockB, outList, removeVars, partVars, ovlVars,
                 multiVars, pileVars, rmdupVars, orderVars>>

NextResolve == ResolveReturns \/ ResolveStops

SpecResolve == InitResolve /\ [][NextResolve]_vars

\* ------------------------------------------- resolveOverlap: properties
\* the longer and the shorter of the two arguments, by the claim's words
Longer == IF blockA.overlapLen > blockB.overlapLen THEN blockA ELSE blockB
Shorter == IF blockA.overlapLen > blockB.overlapLen THEN blockB ELSE blockA

ArgsIntersect ==
    isIntersecting(I0(blockA).lower, I0(blockA).upper, I0(blockB).lower, I0(blockB).upper)

Within(inner, outer) == outer.lower <= inner.lower /\ inner.upper <= outer.upper

\* f carries the shorter block's overlapLen, numDiff and flags
KeepsShorterFields(f) ==
    /\ f.overlapLen = Shorter.overlapLen
    /\ f.numDiff = Shorter.numDiff
    /\ f.flags = Shorter.flags

\* the left and right fragments as the claim words them
ExpectedLeft ==
    LET w == I0(Longer).lower - I0(Shorter).lower
    IN OverlapBlock(Interval(I0(Shorter).lower, I0(Longer).lower - 1),
                    Interval(I1(Shorter).lower, I1(Shorter).lower + w - 1),
                    Shorter.overlapLen, Shorter.numDiff, Shorter.flags)

ExpectedRight ==
    LET w == I0(Shorter).upper - I0(Longer).upper
    IN OverlapBlock(Interval(I0(Longer).upper + 1, I0(Shorter).upper),
                    Interval(I1(Shorter).upper - w + 1, I1(Shorter).upper),
                    Shorter.overlapLen, Shorter.numDiff, Shorter.flags)

LeftDue == I0(Shorter).lower < I0(Longer).lower
RightDue == I0(Shorter).upper > I0(Longer).upper

\* C6: on two intersecting blocks of different overlapLen resolveOverlap returns a
\* list sorted by left coordinate that holds the longer block once, unmodified,
\* and beside it only fragments of the shorter block: 1 block when the shorter
\* lies inside the longer, 3 (left fragment, longer, right fragment, pairwise
\* disjoint) when the shorter extends beyond the longer on both sides.
C6_ResolveShape ==
    (rpc \in {"returned", "aborted"} /\ blockA.overlapLen # blockB.overlapLen /\ ArgsIntersect) =>
        /\ rpc = "returned"
        /\ AscendingLower(outList)
        /\ Cardinality({k \in 1..Len(outList) : outList[k] = Longer}) = 1
        /\ \A k \in 1..Len(outList) :
              outList[k] # Longer =>
                 /\ KeepsShorterFields(outList[k])
                 /\ isValid(I0(outList[k]))
                 /\ Within(I0(outList[k]), I0(Shorter))
                 /\ Disjoint(outList[k], Longer)
        /\ Within(I0(Shorter), I0(Longer)) => Len(outList) = 1
        /\ (LeftDue /\ RightDue) =>
              /\ Len(outList) = 3
              /\ outList[2] = Longer
              /\ I0(outList[1]).upper < I0(Longer).lower
              /\ I0(outList[3]).lower > I0(Longer).upper
              /\ PairwiseDisjoint(outList)

\* the shorter block reaches beyond the longer on both sides: three blocks returned
C6_Witness ==
    /\ rpc = "returned"
    /\ blockA.overlapLen # blockB.overlapLen
    /\ LeftDue /\ RightDue
    /\ Len(outList) = 3

\* C7: with different overlapLen, the list returned holds the longer block, the
\* left fragment exactly when the shorter block starts left of the longer, and
\* the right fragment exactly when it ends right of it; the fragments have the
\* intervals the claim gives and the shorter block's overlapLen, numDiff and
\* flags; when the arguments intersect and the shorter block meets the size
\* invariant, both intervals of a fragment lie inside the shorter block's.
C7_FragmentGeometry ==
    (rpc = "returned" /\ blockA.overlapLen # blockB.overlapLen) =>
        /\ Len(outList) = 1 + (IF LeftDue THEN 1 ELSE 0) + (IF RightDue THEN 1 ELSE 0)
        /\ \E k \in 1..Len(outList) : outList[k] = Longer
        /\ LeftDue => \E k \in 1..Len(outList) : outList[k] = ExpectedLeft
        /\ RightDue => \E k \in 1..Len(outList) : outList[k] = ExpectedRight
        /\ (ArgsIntersect /\ SplitAsserts(Shorter)) =>
              \A k \in 1..Len(outList) :
                 outList[k] # Longer =>
                    /\ Within(I0(outList[k]), I0(Shorter))
                    /\ Within(I1(outList[k]), I1(Shorter))

\* both fragments of a shorter block that carries flags and meets the size invariant
C7_Witness ==
    /\ rpc = "returned"
    /\ blockA.overlapLen # blockB.overlapLen
    /\ ArgsIntersect
    /\ SplitAsserts(Shorter)
    /\ Shorter.flags # Longer.flags
    /\ Shorter.numDiff # Longer.numDiff
    /\ \E j, k \in 1..Len(outList) : outList[j] = ExpectedLeft /\ outList[k] = ExpectedRight

\* C8: with equal overlapLen, resolveOverlap returns the one-element list of A
\* when the forward bounds of A and B are the same, and otherwise stops at the
\* assertion and returns no list.
C8_EqualLength ==
    (rpc \in {"returned", "aborted"} /\ blockA.overlapLen = blockB.overlapLen) =>
        IF I0(blockA).lower = I0(blockB).lower /\ I0(blockA).upper = I0(blockB).upper
        THEN rpc = "returned" /\ outList = <<blockA>>
        ELSE rpc = "aborted" /\ outList = <<>>

\* equal length, same left bound, different right bound: the call stopped
C8_Witness ==
    /\ rpc = "aborted"
    /\ blockA.overlapLen = blockB.overlapLen
    /\ I0(blockA).lower = I0(blockB).lower
    /\ I0(blockA).upper # I0(blockB).upper

\* ------------------------------------------------- partitionBlockList
\* a block of the lists handed to partitionBlockList; numDiff tells the blocks apart
PartBlock(ol, nd) ==
    OverlapBlock(Interval(0, 0), Interval(MaxIdx + 1, MaxIdx + 1), ol, nd, NoFlags)

\* the test of line 319
IsContainment(b, len) == b.overlapLen = len

\* splice at the front of the destination instead of its end
SpliceAtEnd_Front(dest, b) == <<b>> \o dest

\* splice(dest->end(), *pCompleteList, iter++), lines 320 and 322
SpliceAtEnd(dest, b) == Append(dest, b)

\* The complete list holds up to MaxBlocks blocks with overlapLen in 1..readLen,
\* numbered by numDiff; each output list is empty or already holds one block.
InitPartition ==
    /\ readLen \in 1..MaxOverlapLen
    /\ \E n \in 0..MaxBlocks : \E ols \in [1..n -> 1..readLen] :
          pCompleteList = [k \in 1..n |-> PartBlock(ols[k], k)]
    /\ pOverlapList \in {<<>>} \cup {<<PartBlock(ol, 0)>> : ol \in 1..readLen}
    /\ pContainList \in {<<>>} \cup {<<PartBlock(ol, 0)>> : ol \in 1..readLen}
    /\ inLists = [complete |-> pCompleteList, overlap |-> pOverlapList, contain |-> pContainList]
    /\ ppc = "loop"
    /\ IdleRemove
    /\ IdleResolve
    /\ IdleToOverlap
    /\ IdleMulti /\ IdlePileup /\ IdleRmdup /\ IdleOrder

\* lines 317-320: the block at iter is a containment
MoveToContain ==
    /\ ppc = "loop"
    /\ pCompleteList # <<>>
    /\ IsContainment(Head(pCompleteList), readLen)
    /\ pContainList' = SpliceAtEnd(pContainList, Head(pCompleteList))
    /\ pCompleteList' = Tail(pCompleteList)
    /\ UNCHANGED <<readLen, pOverlapList, ppc, inLists, removeVars, resolveVars, ovlVars,
                 multiVars, pileVars, rmdupVars, orderVars>>

\* lines 317-322: the block at iter is a proper overlap
MoveToOverlap ==
    /\ ppc = "loop"
    /\ pCompleteList # <<>>
    /\ ~IsContainment(Head(pCompleteList), readLen)
    /\ pOverlapList' = SpliceAtEnd(pOverlapList, Head(pCompleteList))
    /\ pCompleteList' = Tail(pCompleteList)
    /\ UNCHANGED <<readLen, pContainList, ppc, inLists, removeVars, resolveVars, ovlVars,
                 multiVars, pileVars, rmdupVars, orderVars>>

\* line 317: iter == pCompleteList->end()
PartitionReturns ==
    /\ ppc = "loop"
    /\ pCompleteList = <<>>
    /\ ppc' = "done"
    /\ UNCHANGED <<readLen, pCompleteList, pOverlapList, pContainList, inLists,
                   removeVars, resolveVars, ovlVars,
                 multiVars, pileVars, rmdupVars, orderVars>>

NextPartition == MoveToContain \/ MoveToOverlap \/ PartitionReturns

SpecPartition == InitPartition /\ [][NextPartition]_vars

\* the blocks of s with (keep = TRUE) or without overlapLen = readLen, in the order of s
RECURSIVE Pick(_, _)
Pick(s, keep) ==
    IF s = <<>> THEN <<>>
    ELSE IF (Head(s).overlapLen = readLen) = keep
         THEN <<Head(s)>> \o Pick(Tail(s), keep)
         ELSE Pick(Tail(s), keep)

\* C9: partitionBlockList leaves the complete list empty, appends to containOut
\* the blocks with overlapLen = readLen and to overlapOut the others, each in the
\* order of the complete list and behind the blocks the output lists held, so
\* that the two lists together grow by the length of the complete list; on the
\* way no block is in two lists or in none.
C9_Partition ==
    /\ Len(pCompleteList) + Len(pOverlapList) + Len(pContainList)
          = Len(inLists.complete) + Len(inLists.overlap) + Len(inLists.contain)
    /\ ppc = "done" =>
          /\ pCompleteList = <<>>
          /\ pContainList = inLists.contain \o Pick(inLists.complete, TRUE)
          /\ pOverlapList = inLists.overlap \o Pick(inLists.complete, FALSE)
          /\ Len(pOverlapList) + Len(pContainList)
                = Len(inLists.overlap) + Len(inLists.contain) + Len(inLists.complete)

\* a complete list with two containments and a proper overlap between them was
\* split behind blocks that were already there
C9_Witness ==
    /\ ppc = "done"
    /\ Len(inLists.complete) = 3
    /\ Len(inLists.contain) = 1
    /\ Len(inLists.overlap) = 1
    /\ Len(pContainList) = 3
    /\ Len(pOverlapList) = 2

\* ------------------------------------------------ OverlapBlock::toOverlap
SeqCoord(s, e, len) == [start |-> s, end |-> e, seqlen |-> len]

\* SeqCoord::flip
flip(sc) ==
    [sc EXCEPT !.start = sc.seqlen - 1 - sc.end, !.end = sc.seqlen - 1 - sc.start]

\* AlignFlags::isReverseComplement
isReverseComplement(af) == af.targetRev # af.queryRev

\* the constructor Overlap(queryID, sc1, targetID, sc2, isRC, numDiff)
Overlap(qid, sc1, tid, sc2, isRC, nd) ==
    [queryID |-> qid, queryCoord |-> sc1, targetID |-> tid, targetCoord |-> sc2,
     isRC |-> isRC, numDiff |-> nd]

\* the start of the query coordinate taken one position too far left
QueryStart_OffByOne(qLen, ol) == qLen - ol - 1

\* line 110
QueryStart(qLen, ol) == qLen - ol

\* OverlapBlock::toOverlap, lines 107-129
toOverlap(b, queryID, targetID, qLen, tLen) ==
    LET s1 == QueryStart(qLen, b.overlapLen)
        e1 == s1 + b.overlapLen - 1
        sc1 == SeqCoord(s1, e1, qLen)
        s2 == 0
        e2 == s2 + b.overlapLen - 1
        sc2 == SeqCoord(s2, e2, tLen)
        sc1f == IF b.flags.queryRev THEN flip(sc1) ELSE sc1
        sc2f == IF b.flags.targetRev THEN flip(sc2) ELSE sc2
        isRC == isReverseComplement(b.flags)
    IN Overlap(queryID, sc1f, targetID, sc2f, isRC, b.numDiff)

\* read lengths and overlap lengths: the small ones, and those of the worked example
SeqLens == 1..MaxSeqLen \cup {50}
OverlapLens == 1..MaxSeqLen \cup {20}

AllFlags == {AlignFlags(qr, tr, qc) : qr \in BOOLEAN, tr \in BOOLEAN, qc \in BOOLEAN}

\* a block whose overlap fits both reads
InitToOverlap ==
    /\ queryLen \in SeqLens
    /\ targetLen \in SeqLens
    /\ \E ol \in OverlapLens, nd \in 0..1, af \in AllFlags :
          /\ ol <= queryLen
          /\ ol <= targetLen
          /\ block = OverlapBlock(Interval(0, 0), Interval(MaxIdx + 1, MaxIdx + 1), ol, nd, af)
    /\ overlap = <<>>
    /\ opc = "call"
    /\ IdleRemove
    /\ IdleResolve
    /\ IdlePartition
    /\ IdleMulti /\ IdlePileup /\ IdleRmdup /\ IdleOrder

ToOverlap ==
    /\ opc = "call"
    /\ overlap' = toOverlap(block, "query", "target", queryLen, targetLen)
    /\ opc' = "returned"
    /\ UNCHANGED <<block, queryLen, targetLen, removeVars, resolveVars, partVars,
                 multiVars, pileVars, rmdupVars, orderVars>>

NextToOverlap == ToOverlap

SpecToOverlap == InitToOverlap /\ [][NextToOverlap]_vars

ValidCoord(sc) == 0 <= sc.start /\ sc.start <= sc.end /\ sc.end < sc.seqlen

\* C10: for a block with 1 <= overlapLen <= min(queryLen, targetLen), toOverlap
\* gives the query coordinate [queryLen - ol, queryLen - 1], or [0, ol - 1] when
\* the query-reversed flag is set, the target coordinate [0, ol - 1], or
\* [targetLen - ol, targetLen - 1] when the target-reversed flag is set,
\* isReverseComplement as the flags give it and the block's numDiff; both
\* coordinates satisfy 0 <= start <= end < length; queryLen 50, ol 20 and no
\* flags give query [30,49], target [0,19], not reverse-complement.
C10_ToOverlap ==
    (/\ opc = "returned"
     /\ 1 <= block.overlapLen
     /\ block.overlapLen <= queryLen
     /\ block.overlapLen <= targetLen) =>
        LET ol == block.overlapLen
        IN /\ overlap.queryCoord =
                 IF block.flags.queryRev THEN SeqCoord(0, ol - 1, queryLen)
                 ELSE SeqCoord(queryLen - ol, queryLen - 1, queryLen)
           /\ overlap.targetCoord =
                 IF block.flags.targetRev THEN SeqCoord(targetLen - ol, targetLen - 1, targetLen)
                 ELSE SeqCoord(0, ol - 1, targetLen)
           /\ overlap.isRC = isReverseComplement(block.flags)
           /\ overlap.numDiff = block.numDiff
           /\ ValidCoord(overlap.queryCoord)
           /\ ValidCoord(overlap.targetCoord)
           /\ (queryLen = 50 /\ ol = 20 /\ block.flags = NoFlags) =>
                 /\ overlap.queryCoord = SeqCoord(30, 49, 50)
                 /\ overlap.targetCoord = SeqCoord(0, 19, targetLen)
                 /\ overlap.isRC = FALSE

\* the lengths of the worked example with the target reversed: the query keeps
\* [30,49], the target coordinate is flipped to [30,49] of 50
C10_Witness ==
    /\ opc = "returned"
    /\ queryLen = 50
    /\ targetLen = 50
    /\ block.overlapLen = 20
    /\ block.flags.targetRev /\ ~block.flags.queryRev
    /\ overlap.queryCoord = SeqCoord(30, 49, 50)
    /\ overlap.targetCoord = SeqCoord(30, 49, 50)
    /\ overlap.isRC

\* ------------------------------------------------ blockListToMultiOverlap
\* OverlapBlock.cpp lines 327-365 and ErrorCorrectProcess.cpp lines 45-83: the
\* two functions have the same loop and differ in the id given to the anchor
\* read (record.id in the first, makeIdxString(-1) in the second).

\* longest block list handed to blockListToMultiOverlap
MaxMultiBlocks == 2
\* the read indices of a run are 0..MaxIdx or IdxShift..IdxShift+MaxIdx, so that
\* one- and two-digit indices both occur
IdxShift == 8

DigitChars == <<"0", "1", "2", "3", "4", "5", "6", "7", "8", "9">>

\* operator<<(int64_t) on a stringstream: the decimal digits of n >= 0, most
\* significant first
RECURSIVE Digits(_)
Digits(n) ==
    IF n < 10 THEN <<DigitChars[n + 1]>>
    ELSE Append(Digits(n \div 10), DigitChars[(n % 10) + 1])

\* makeIdxString, OverlapBlock.cpp lines 368-373: a string is the sequence of
\* its characters
makeIdxString(idx) == IF idx < 0 THEN <<"-">> \o Digits(0 - idx) ELSE Digits(idx)

\* SeqCoord::isContained: the coordinate spans its whole sequence
isContained(sc) == sc.start = 0 /\ sc.end = sc.seqlen - 1

\* the length of getOverlapString(read_seq), lines 62-65: substr of a string of
\* the anchor's length
OverlapStringLen(b, len) ==
    IF b.overlapLen <= len THEN b.overlapLen ELSE len

\* the query coordinate of a block, lines 334-346
MultiQueryCoord(b, len) ==
    LET s1 == len - b.overlapLen
        e1 == s1 + b.overlapLen - 1
        sc1 == SeqCoord(s1, e1, len)
    IN IF b.flags.queryRev THEN flip(sc1) ELSE sc1

\* the target coordinate of a block, lines 341-348
MultiTargetCoord(b, len) ==
    LET s2 == 0
        e2 == s2 + b.overlapLen - 1
        sc2 == SeqCoord(s2, e2, OverlapStringLen(b, len))
    IN IF b.flags.targetRev THEN flip(sc2) ELSE sc2

\* the inner loop stops one index early
LoopEnd_Exclusive(b) == I0(b).upper - 1

\* line 356: i <= iter->ranges.interval[0].upper
LoopEnd(b) == I0(b).upper

\* lines 356-360: one out.add(overlap_string, o) for each i from i up to the
\* loop's end
RECURSIVE AddRange(_, _, _, _)
AddRange(i, b, rid, len) ==
    IF i > LoopEnd(b) THEN <<>>
    ELSE <<[seqLen |-> OverlapStringLen(b, len),
            ovr |-> Overlap(rid, MultiQueryCoord(b, len), makeIdxString(i),
                            MultiTargetCoord(b, len), FALSE, 0 - 1)]>>
         \o AddRange(i + 1, b, rid, len)

\* the ids of the anchor read: record.id (OverlapBlock.cpp line 330) and
\* makeIdxString(-1) (ErrorCorrectProcess.cpp line 47)
ReadIds == {<<"r">>, makeIdxString(0 - 1)}

MultiFlags == {NoFlags, AlignFlags(TRUE, FALSE, FALSE), AlignFlags(FALSE, TRUE, FALSE)}

\* a block of the list: forward interval from base, overlapLen at most the
\* anchor's length
MultiBlock(iv, base, ol, af) ==
    OverlapBlock(Interval(iv.lower + base, iv.upper + base),
                 Interval(iv.lower + base, iv.upper + base), ol, 1, af)

InitMulti ==
    /\ readSeqLen = MaxOverlapLen
    /\ readIdx \in ReadIds
    /\ \E n \in 0..MaxMultiBlocks, base \in {0, IdxShift}, af \in MultiFlags :
         \E ivs \in [1..n -> ValidForward], ols \in [1..n -> 1..MaxOverlapLen] :
            blockList = [k \in 1..n |-> MultiBlock(ivs[k], base, ols[k], af)]
    /\ inBlockList = blockList
    /\ moIter = 1
    /\ multiOut = <<>>
    /\ mopc = "loop"
    /\ IdleRemove
    /\ IdleResolve
    /\ IdlePartition
    /\ IdleToOverlap
    /\ IdlePileup /\ IdleRmdup /\ IdleOrder

\* lines 352-353: a block whose query coordinate is contained is skipped
MultiSkip ==
    /\ mopc = "loop"
    /\ moIter <= Len(blockList)
    /\ isContained(MultiQueryCoord(blockList[moIter], readSeqLen))
    /\ moIter' = moIter + 1
    /\ UNCHANGED <<blockList, readSeqLen, readIdx, multiOut, mopc, inBlockList,
                   blockVars, pileVars, rmdupVars, orderVars>>

\* lines 356-360: the block's entries are added
MultiAdd ==
    /\ mopc = "loop"
    /\ moIter <= Len(blockList)
    /\ ~isContained(MultiQueryCoord(blockList[moIter], readSeqLen))
    /\ multiOut' = multiOut \o AddRange(I0(blockList[moIter]).lower, blockList[moIter],
                                        readIdx, readSeqLen)
    /\ moIter' = moIter + 1
    /\ UNCHANGED <<blockList, readSeqLen, readIdx, mopc, inBlockList,
                   blockVars, pileVars, rmdupVars, orderVars>>

\* line 364: return out
MultiReturns ==
    /\ mopc = "loop"
    /\ moIter > Len(blockList)
    /\ mopc' = "done"
    /\ UNCHANGED <<blockList, readSeqLen, readIdx, moIter, multiOut, inBlockList,
                   blockVars, pileVars, rmdupVars, orderVars>>

NextMulti == MultiSkip \/ MultiAdd \/ MultiReturns

SpecMulti == InitMulti /\ [][NextMulti]_vars

\* the number a string of decimal digits stands for (-1 for any other string)
DigitValue(c) ==
    IF \E d \in 1..10 : DigitChars[d] = c
    THEN (CHOOSE d \in 1..10 : DigitChars[d] = c) - 1
    ELSE 0 - 1

RECURSIVE DecimalValue(_)
DecimalValue(str) ==
    IF str = <<>> THEN 0 - 1
    ELSE IF Len(str) = 1 THEN DigitValue(str[1])
    ELSE LET hi == DecimalValue(SubSeq(str, 1, Len(str) - 1))
             lo == DigitValue(str[Len(str)])
         IN IF hi < 0 \/ lo < 0 THEN 0 - 1 ELSE 10 * hi + lo

\* the read indices due from a list: for each block with overlapLen other than
\* the anchor's length, in list order, lower..upper ascending
RECURSIVE DueIndices(_)
DueIndices(s) ==
    IF s = <<>> THEN <<>>
    ELSE LET b == Head(s)
         IN (IF b.overlapLen # readSeqLen
             THEN [k \in 1..size(I0(b)) |-> I0(b).lower + k - 1]
             ELSE <<>>) \o DueIndices(Tail(s))

\* the blocks of a list with overlapLen other than the anchor's length
RECURSIVE NonContainment(_)
NonContainment(s) ==
    IF s = <<>> THEN <<>>
    ELSE IF Head(s).overlapLen # readSeqLen THEN <<Head(s)>> \o NonContainment(Tail(s))
    ELSE NonContainment(Tail(s))

\* C11: when blockListToMultiOverlap has gone over a prefix of the list, out
\* holds exactly one entry per read index i in the forward interval of each
\* block of that prefix whose overlapLen differs from the anchor read's length,
\* in block order and ascending i; the entry's target id is the decimal string
\* of i (no leading zero), it is marked not reverse-complement and has
\* numDifferences -1; blocks with overlapLen equal to the anchor read's length
\* add nothing; the number of entries is the sum of the interval sizes of the
\* other blocks; the block list is as it was handed in.
C11_MultiOverlap ==
    (mopc \in {"loop", "done"}) =>
        LET done == SubSeq(blockList, 1, moIter - 1)
            due == DueIndices(done)
        IN /\ Len(multiOut) = Len(due)
           /\ \A k \in 1..Len(multiOut) :
                 /\ k <= Len(due)
                 /\ DecimalValue(multiOut[k].ovr.targetID) = due[k]
                 /\ (Len(multiOut[k].ovr.targetID) = 1 \/ multiOut[k].ovr.targetID[1] # "0")
                 /\ multiOut[k].ovr.isRC = FALSE
                 /\ multiOut[k].ovr.numDiff = 0 - 1
           /\ Len(multiOut) = SumSizes(NonContainment(done))
           /\ blockList = inBlockList

\* a containment block followed by a block over read indices IdxShift+1 and
\* IdxShift+2: the first adds nothing, the second its two entries in order
C11_Witness ==
    /\ mopc = "done"
    /\ Len(blockList) = 2
    /\ blockList[1].overlapLen = readSeqLen
    /\ blockList[2].overlapLen < readSeqLen
    /\ I0(blockList[2]) = Interval(IdxShift + 1, IdxShift + 2)
    /\ Len(multiOut) = 2
    /\ multiOut[1].ovr.targetID = makeIdxString(IdxShift + 1)
    /\ multiOut[2].ovr.targetID = makeIdxString(IdxShift + 2)
    /\ Len(multiOut[2].ovr.targetID) = 2

\* ------------------------------------------- Pileup::calculateSimpleAlphaProb
\* src/Util/Pileup.cpp.  A log-probability is kept as a token 1..MaxLp (equal
\* tokens, equal doubles); a term of the sum for candidate base b is the record
\* [match, lp]: log(1 - exp(lp)) when match, lp otherwise.  The sum for b is the
\* sequence of its terms in the order they were added.

\* deepest pileup built
MaxDepth == 2
\* distinct log-probabilities handed to add(b, lp)
MaxLp == 2

\* ALPHABET, indexed from 1; DNA_ALPHABET_SIZE is its length
ALPHABET == <<"A", "C", "G", "T">>
DNA_ALPHABET_SIZE == Len(ALPHABET)

LpValues == 1..MaxLp

\* log(DEFAULT_PROB), line 18
DefaultLp == MaxLp

PUElem(b, lp) == [base |-> b, lp |-> lp]

InitPileup ==
    /\ m_data = <<>>
    /\ ap = <<>>
    /\ lpReads = {}
    /\ baseIdx = 1
    /\ pipc = "build"
    /\ IdleRemove
    /\ IdleResolve
    /\ IdlePartition
    /\ IdleToOverlap
    /\ IdleMulti /\ IdleRmdup /\ IdleOrder

\* Pileup::add(char b), lines 16-19
PileupAddDefault ==
    /\ pipc = "build"
    /\ Len(m_data) < MaxDepth
    /\ \E b \in {ALPHABET[k] : k \in 1..DNA_ALPHABET_SIZE} :
          m_data' = Append(m_data, PUElem(b, DefaultLp))
    /\ UNCHANGED <<ap, lpReads, baseIdx, pipc, blockVars, multiVars, rmdupVars, orderVars>>

\* Pileup::add(char b, double lp), lines 22-25
PileupAdd ==
    /\ pipc = "build"
    /\ Len(m_data) < MaxDepth
    /\ \E b \in {ALPHABET[k] : k \in 1..DNA_ALPHABET_SIZE}, lp \in LpValues :
          m_data' = Append(m_data, PUElem(b, lp))
    /\ UNCHANGED <<ap, lpReads, baseIdx, pipc, blockVars, multiVars, rmdupVars, orderVars>>

\* lines 56-57 on an empty pileup: the assertion stops the program
CalcAssertFails ==
    /\ pipc = "build"
    /\ m_data = <<>>
    /\ pipc' = "abort"
    /\ UNCHANGED <<m_data, ap, lpReads, baseIdx, blockVars, multiVars, rmdupVars, orderVars>>

\* lines 56-59 on a non-empty pileup: ap is empty, the outer loop starts
CalcStart ==
    /\ pipc = "build"
    /\ m_data # <<>>
    /\ ap' = <<>>
    /\ baseIdx' = 1
    /\ pipc' = "loop"
    /\ UNCHANGED <<m_data, lpReads, blockVars, multiVars, rmdupVars, orderVars>>

\* the index of m_data whose lp lines 68 and 70 read (0-based, as in the source)
LpIndex(i) == 1

\* the inner loop, lines 65-71, for candidate base b: one term per observation
\* i; v is what the read of m_data[LpIndex(i)].lp gives when the index is not
\* below m_data.size()
InnerLoop(b, v) ==
    [i \in 1..Len(m_data) |->
        [match |-> m_data[i].base = b,
         lp |-> IF LpIndex(i - 1) < Len(m_data) THEN m_data[LpIndex(i - 1) + 1].lp ELSE v]]

\* one iteration of the outer loop, lines 59-73, with every read inside the
\* vector
CalcBase ==
    /\ pipc = "loop"
    /\ baseIdx <= DNA_ALPHABET_SIZE
    /\ \A i \in 1..Len(m_data) : LpIndex(i - 1) < Len(m_data)
    /\ ap' = Append(ap, [base |-> ALPHABET[baseIdx], terms |-> InnerLoop(ALPHABET[baseIdx], 0),
                         scaled |-> FALSE])
    /\ lpReads' = lpReads \cup {LpIndex(i - 1) : i \in 1..Len(m_data)}
    /\ baseIdx' = baseIdx + 1
    /\ UNCHANGED <<m_data, pipc, blockVars, multiVars, rmdupVars, orderVars>>

\* one iteration of the outer loop when a read falls outside the vector: the
\* read has no defined value; it gives the double of some observation, a double
\* of none (0), or the program stops
CalcBaseOutOfRange ==
    /\ pipc = "loop"
    /\ baseIdx <= DNA_ALPHABET_SIZE
    /\ \E i \in 1..Len(m_data) : LpIndex(i - 1) >= Len(m_data)
    /\ lpReads' = lpReads \cup {LpIndex(i - 1) : i \in 1..Len(m_data)}
    /\ \/ /\ \E v \in 0..MaxLp :
                ap' = Append(ap, [base |-> ALPHABET[baseIdx],
                                  terms |-> InnerLoop(ALPHABET[baseIdx], v),
                                  scaled |-> FALSE])
          /\ baseIdx' = baseIdx + 1
          /\ UNCHANGED pipc
       \/ /\ pipc' = "abort"
          /\ UNCHANGED <<ap, baseIdx>>
    /\ UNCHANGED <<m_data, blockVars, multiVars, rmdupVars, orderVars>>

\* lines 75-92: the marginal is taken off every sum; return ap
CalcScale ==
    /\ pipc = "loop"
    /\ baseIdx > DNA_ALPHABET_SIZE
    /\ ap' = [k \in 1..Len(ap) |-> [ap[k] EXCEPT !.scaled = TRUE]]
    /\ pipc' = "done"
    /\ UNCHANGED <<m_data, lpReads, baseIdx, blockVars, multiVars, rmdupVars, orderVars>>

NextPileup ==
    \/ PileupAddDefault
    \/ PileupAdd
    \/ CalcAssertFails
    \/ CalcStart
    \/ CalcBase
    \/ CalcBaseOutOfRange
    \/ CalcScale

SpecPileup == InitPileup /\ [][NextPileup]_vars

\* C12: in calculateSimpleAlphaProb on a non-empty pileup, for every candidate
\* base b the term for observation i comes from observation i's own base and
\* own log-probability, for every i below the depth; no element at an index at
\* or beyond the depth is read, and the call is not stopped.
C12_OwnTerms ==
    (m_data # <<>>) =>
        /\ pipc # "abort"
        /\ \A j \in lpReads : j < Len(m_data)
        /\ \A k \in 1..Len(ap) :
              /\ Len(ap[k].terms) = Len(m_data)
              /\ \A i \in 1..Len(m_data) :
                    ap[k].terms[i] =
                        [match |-> m_data[i].base = ap[k].base, lp |-> m_data[i].lp]

\* ------------------------------------------------------------- sga rmdup
\* src/SGA/rmdup.cpp: parseRmdupOptions and the output name of parseDupHits.
\* A name is the sequence of its parts (<<"reads", ".fa">> is reads.fa, <<>>
\* the empty string), so that + on strings is \o.  An option argument is the
\* sequence of its whitespace-separated words.  argv is kept as getopt_long
\* leaves it: the options in order, then the operands; optind counts the
\* arguments consumed so far (from 0).

\* most options on a command line
MaxOptions == 2
\* most operands on a command line
MaxOperands == 2

ReadFiles == {<<"reads", ".fa">>, <<"lib", ".fastq">>}
OutFiles == {<<"out", ".fa">>, <<"kept", ".fa">>}
Prefixes == {<<"pre">>}

\* what follows -o, -p: no word, one word, or two words
OutArgs == {<<>>} \cup {<<f>> : f \in OutFiles} \cup {<<<<"out", ".fa">>, <<"x">>>>}
PrefixArgs == {<<f>> : f \in Prefixes}

Options ==
    {[opt |-> "o", arg |-> a] : a \in OutArgs}
    \cup {[opt |-> "p", arg |-> a] : a \in PrefixArgs}
    \cup {[opt |-> c, arg |-> <<>>] : c \in {"v", "t", "help"}}

\* std::istringstream arg(optarg); arg >> str: the first word; with no word the
\* extraction fails and str keeps its value
Extract(arg, old) == IF arg = <<>> THEN old ELSE Head(arg)

\* stripFilename: the name without its last suffix
stripFilename(f) == IF f = <<>> THEN <<>> ELSE SubSeq(f, 1, Len(f) - 1)

\* line 119: opt::prefix + ".rmdup.fa"
OutputName == optPrefix \o <<".rmdup.fa">>

InitRmdup ==
    /\ \E n \in 0..MaxOptions, m \in 0..MaxOperands :
         \E os \in [1..n -> Options], fs \in [1..m -> ReadFiles] :
            argv = [options |-> os, operands |-> fs, optind |-> 0]
    /\ optPrefix = <<>>
    /\ optOutFile = <<>>
    /\ readsFile = <<>>
    /\ writerFile = <<>>
    /\ cmdOut = <<>>
    /\ dpc = "options"
    /\ IdleRemove
    /\ IdleResolve
    /\ IdlePartition
    /\ IdleToOverlap
    /\ IdleMulti /\ IdlePileup /\ IdleOrder

MoreOptions == argv.optind < Len(argv.options)

NextOption == argv.options[argv.optind + 1]

\* line 197: case 'p'
ParsePrefix ==
    /\ dpc = "options"
    /\ MoreOptions
    /\ NextOption.opt = "p"
    /\ optPrefix' = Extract(NextOption.arg, optPrefix)
    /\ argv' = [argv EXCEPT !.optind = argv.optind + 1]
    /\ UNCHANGED <<optOutFile, readsFile, writerFile, dpc, cmdOut,
                   blockVars, multiVars, pileVars, orderVars>>

\* line 198: case 'o'
ParseOut ==
    /\ dpc = "options"
    /\ MoreOptions
    /\ NextOption.opt = "o"
    /\ optOutFile' = Extract(NextOption.arg, optOutFile)
    /\ cmdOut' = Append(cmdOut, NextOption.arg)
    /\ argv' = [argv EXCEPT !.optind = argv.optind + 1]
    /\ UNCHANGED <<optPrefix, readsFile, writerFile, dpc,
                   blockVars, multiVars, pileVars, orderVars>>

\* lines 199-201: case 'e', 't', 'v' change no name
ParseOther ==
    /\ dpc = "options"
    /\ MoreOptions
    /\ NextOption.opt \in {"v", "t"}
    /\ argv' = [argv EXCEPT !.optind = argv.optind + 1]
    /\ UNCHANGED <<optPrefix, optOutFile, readsFile, writerFile, dpc, cmdOut,
                   blockVars, multiVars, pileVars, orderVars>>

\* lines 202-207: --help, --version: exit
ParseHelp ==
    /\ dpc = "options"
    /\ MoreOptions
    /\ NextOption.opt = "help"
    /\ dpc' = "exit"
    /\ UNCHANGED <<argv, optPrefix, optOutFile, readsFile, writerFile, cmdOut,
                   blockVars, multiVars, pileVars, orderVars>>

\* lines 212-227: missing or too many arguments: exit
ParseDie ==
    /\ dpc = "options"
    /\ ~MoreOptions
    /\ Len(argv.operands) # 1
    /\ dpc' = "exit"
    /\ UNCHANGED <<argv, optPrefix, optOutFile, readsFile, writerFile, cmdOut,
                   blockVars, multiVars, pileVars, orderVars>>

\* lines 230-235: readsFile, and the prefix taken from it when none was given
ParseOperand ==
    /\ dpc = "options"
    /\ ~MoreOptions
    /\ Len(argv.operands) = 1
    /\ readsFile' = Head(argv.operands)
    /\ optPrefix' = IF optPrefix = <<>> THEN stripFilename(Head(argv.operands))
                    ELSE optPrefix
    /\ argv' = [argv EXCEPT !.optind = argv.optind + 1]
    /\ dpc' = "hits"
    /\ UNCHANGED <<optOutFile, writerFile, cmdOut,
                   blockVars, multiVars, pileVars, orderVars>>

\* rmdup() and parseDupHits up to line 120: createWriter(outFile)
ParseDupHits ==
    /\ dpc = "hits"
    /\ writerFile' = OutputName
    /\ dpc' = "written"
    /\ UNCHANGED <<argv, optPrefix, optOutFile, readsFile, cmdOut,
                   blockVars, multiVars, pileVars, orderVars>>

NextRmdup ==
    \/ ParsePrefix
    \/ ParseOut
    \/ ParseOther
    \/ ParseHelp
    \/ ParseDie
    \/ ParseOperand
    \/ ParseDupHits

SpecRmdup == InitRmdup /\ [][NextRmdup]_vars

\* C13: rmdup writes the retained reads to the file named by -o/--out=FILE
\* when the option is given (the last one, when FILE is one word), and to the
\* default name, the prefix followed by .rmdup.fa, when it is not given.
C13_OutOption ==
    (dpc = "written") =>
        IF cmdOut = <<>> THEN writerFile = optPrefix \o <<".rmdup.fa">>
        ELSE Len(cmdOut[Len(cmdOut)]) = 1 => writerFile = cmdOut[Len(cmdOut)][1]

\* ------------------------------- removeSubMaximalBlocks as a function of its list
\* the loop of lines 156-183 from position it of list s: [fatal, list]
RECURSIVE RunLoop(_, _)
RunLoop(s, it) ==
    IF it > Len(s) \/ it + 1 > Len(s) THEN [fatal |-> "none", list |-> s]
    ELSE IF isIntersecting(I0(s[it]).lower, I0(s[it]).upper,
                           I0(s[it + 1]).lower, I0(s[it + 1]).upper)
         THEN LET r == resolveOverlap(s[it], s[it + 1])
              IN IF r.fatal # "none" THEN [fatal |-> r.fatal, list |-> s]
                 ELSE RunLoop(ListMerge(EraseTwo(s, it), r.outList), 1)
         ELSE RunLoop(s, it + 1)

\* removeSubMaximalBlocks(pList), lines 141-184: sort, then the loop
removeSubMaximalBlocks(s) == RunLoop(ListSort(s), 1)

\* a block of the lists compared; a marked block carries numDiff 1 and the
\* others 0, so that it can be told from its twin
OrderBlock(iv, ol, nd) ==
    OverlapBlock(iv, Interval(iv.lower + MaxIdx + 1, iv.upper + MaxIdx + 1), ol, nd, NoFlags)

\* a number for each (forward interval, overlapLen), used only to name one
\* arrangement of a multiset of blocks
BlockCode(iv, ol) == (iv.upper * (MaxIdx + 1) + iv.lower) * (MaxOverlapLen + 1) + ol

\* the multisets of at most MaxBlocks blocks whose blocks of equal overlapLen
\* have identical or disjoint forward intervals, each arranged by descending
\* BlockCode; a block that follows a twin (same interval and overlapLen) may be
\* marked (a mark on a block without a twin tells it from no other block)
InitOrder ==
    /\ \E n \in 0..MaxBlocks :
         \E ivs \in [1..n -> ValidForward], ols \in [1..n -> 1..MaxOverlapLen] :
            /\ \A k \in 1..(n - 1) :
                  BlockCode(ivs[k], ols[k]) >= BlockCode(ivs[k + 1], ols[k + 1])
            /\ EqualLenPrecondition(InputList(n, ivs, ols))
            /\ \E mark \in 0..n :
                  /\ mark # 0 =>
                        mark > 1 /\ ivs[mark - 1] = ivs[mark] /\ ols[mark - 1] = ols[mark]
                  /\ ordList = [k \in 1..n |->
                                  OrderBlock(ivs[k], ols[k], IF k = mark THEN 1 ELSE 0)]
    /\ ordResult = <<>>
    /\ canResult = <<>>
    /\ ordpc = "call"
    /\ IdleRemove
    /\ IdleResolve
    /\ IdlePartition
    /\ IdleToOverlap
    /\ IdleMulti /\ IdlePileup /\ IdleRmdup

\* the permutations of 1..n
Arrangements(n) == {f \in [1..n -> 1..n] : \A a, b \in 1..n : f[a] = f[b] => a = b}

\* removeSubMaximalBlocks on the blocks as arranged in ordList
OrderCallArranged ==
    /\ ordpc = "call"
    /\ canResult' = removeSubMaximalBlocks(ordList)
    /\ ordpc' = "again"
    /\ UNCHANGED <<ordList, ordResult, blockVars, multiVars, pileVars, rmdupVars>>

\* removeSubMaximalBlocks on some permutation of the same blocks
OrderCallPermuted ==
    /\ ordpc = "again"
    /\ \E f \in Arrangements(Len(ordList)) :
          ordResult' = removeSubMaximalBlocks([k \in 1..Len(ordList) |-> ordList[f[k]]])
    /\ ordpc' = "done"
    /\ UNCHANGED <<ordList, canResult, blockVars, multiVars, pileVars, rmdupVars>>

NextOrder == OrderCallArranged \/ OrderCallPermuted

SpecOrder == InitOrder /\ [][NextOrder]_vars

\* a list seen as its sequence of (forward interval, overlapLen) pairs
PairView(s) == [k \in 1..Len(s) |-> <<I0(s[k]), s[k].overlapLen>>]

\* C14: for blocks whose equal-overlapLen members have identical or disjoint
\* forward intervals, removeSubMaximalBlocks returns for every permutation of
\* the blocks, seen as the sequence of (forward interval, overlapLen) pairs,
\* the result it returns for one fixed arrangement of them; hence the same
\* result for any two permutations.  For any two intersecting blocks of the
\* list, resolveOverlap gives the same pairs whichever is passed as A.
C14_OrderInsensitive ==
    (ordpc = "done") =>
        /\ ordResult.fatal = "none"
        /\ canResult.fatal = "none"
        /\ PairView(ordResult.list) = PairView(canResult.list)
        /\ \A j, k \in 1..Len(ordList) :
              (j # k /\ isIntersecting(I0(ordList[j]).lower, I0(ordList[j]).upper,
                                       I0(ordList[k]).lower, I0(ordList[k]).upper)) =>
                 LET ab == resolveOverlap(ordList[j], ordList[k])
                     ba == resolveOverlap(ordList[k], ordList[j])
                 IN /\ ab.fatal = ba.fatal
                    /\ PairView(ab.outList) = PairView(ba.outList)

\* three blocks, two of them equal but for the mark and cut by a longer
\* third: the permutation run returns the same pairs as the fixed arrangement
\* and another of the two equal blocks survived in it
C14_Witness ==
    /\ ordpc = "done"
    /\ Len(ordList) = 3
    /\ Len(ordResult.list) >= 2
    /\ ordResult.list # canResult.list
    /\ PairView(ordResult.list) = PairView(canResult.list)

====
